---- MODULE Spec2Model ----
(***************************************************************************)
(* uni-calc: the pipeline tokenize -> parse_expression -> evaluate of      *)
(* src/lexer.rs, src/parser.rs and src/eval.rs.                            *)
(*                                                                         *)
(* A text is a sequence of one-character strings.  An f64 is modelled by   *)
(* the rational it holds, [c |-> "rat", n |-> numerator, d |-> denominator]*)
(* in lowest terms (a decimal literal stands for the double nearest to     *)
(* it), or by one of the named constants pi, e, phi with a sign.           *)
(* Arithmetic is computed where the double arithmetic is exact (dyadic     *)
(* operands and result, below Limit); every other outcome (a rounded       *)
(* result, an irrational library value, an infinity, a NaN) is the         *)
(* outcome Unmodelled, which every enclosing evaluation propagates.        *)
(***************************************************************************)
EXTENDS Integers, Sequences, FiniteSets, TLC

VARIABLES text, pc, lexer, token, ast, result

vars == <<text, pc, lexer, token, ast, result>>

(***************************************************************************)
(* Bounds of the model.                                                    *)
(***************************************************************************)
MaxChars == 3
MaxArgChars == 2
MaxToks == 3
MaxOperands == 3
MaxCallDepth == 2
MaxNodes == 4
MaxExtraNext == 2
Limit == 16384

(***************************************************************************)
(* Result<T>: Ok(value) or Err(report message).                            *)
(***************************************************************************)
Ok(v) == [ok |-> TRUE, val |-> v]
Err(e) == [ok |-> FALSE, err |-> e]
Unmodelled == Err("(inexact f64 outcome, not modelled)")
NotRun == Err("(not run)")

(***************************************************************************)
(* f64 values.                                                             *)
(***************************************************************************)
Abs(x) == IF x < 0 THEN -x ELSE x

RECURSIVE Gcd(_, _)
Gcd(a, b) == IF b = 0 THEN a ELSE Gcd(b, a % b)

Rat(n, d) ==
  LET g == Gcd(Abs(n), Abs(d))
      s == IF d < 0 THEN -1 ELSE 1
  IN  [c |-> "rat", n |-> s * (n \div g), d |-> s * (d \div g)]

Num(n) == Rat(n, 1)
NamedConst(name, sign) == [c |-> name, n |-> sign, d |-> 1]
PI == NamedConst("pi", 1)
E == NamedConst("e", 1)
PHI == NamedConst("phi", 1)

IsRat(v) == v.c = "rat"

RECURSIVE IsPow2(_)
IsPow2(d) == d = 1 \/ (d > 1 /\ d % 2 = 0 /\ IsPow2(d \div 2))

\* the double holds exactly this rational, and the model's integers hold it
IsExact(v) == IsRat(v) /\ IsPow2(v.d) /\ Abs(v.n) <= Limit /\ v.d <= Limit

\* -x : negation is exact on every double
Neg(v) == [v EXCEPT !.n = -v.n]

\* the comparisons of the code; rounding to the nearest double is monotone,
\* and pi, e and phi are greater than 1
IsZero(v) == IsRat(v) /\ v.n = 0
LessThan(v, k) == IF IsRat(v) THEN v.n < k * v.d ELSE v.n < 0
GreaterThan(v, k) == IF IsRat(v) THEN v.n > k * v.d ELSE v.n > 0

Exactly(v) == IF IsExact(v) THEN Ok(v) ELSE Unmodelled

FloatAdd(a, b) ==
  IF IsExact(a) /\ IsExact(b) THEN Exactly(Rat(a.n * b.d + b.n * a.d, a.d * b.d))
  ELSE Unmodelled
FloatSub(a, b) ==
  IF IsExact(a) /\ IsExact(b) THEN Exactly(Rat(a.n * b.d - b.n * a.d, a.d * b.d))
  ELSE Unmodelled
FloatMul(a, b) ==
  IF IsExact(a) /\ IsExact(b) THEN Exactly(Rat(a.n * b.n, a.d * b.d))
  ELSE Unmodelled
\* left / right with right /= 0
FloatDiv(a, b) ==
  IF IsExact(a) /\ IsExact(b) /\ b.n # 0 THEN Exactly(Rat(a.n * b.d, a.d * b.n))
  ELSE Unmodelled

\* x^k for an integer k >= 0, by repeated multiplication
RECURSIVE PowNat(_, _)
PowNat(x, k) ==
  IF k = 0 THEN Ok(Num(1))
  ELSE LET p == PowNat(x, k - 1)
       IN  IF p.ok THEN FloatMul(p.val, x) ELSE p

\* f64::powf
Powf(x, y) ==
  IF ~(IsExact(x) /\ IsExact(y)) THEN Unmodelled
  ELSE IF y.d = 1 /\ y.n >= 0 THEN PowNat(x, y.n)
  ELSE IF y.d = 1 /\ x.n # 0
    THEN LET p == PowNat(x, -y.n)
         IN  IF p.ok THEN FloatDiv(Num(1), p.val) ELSE p
  ELSE IF x = Num(1) THEN Ok(Num(1))
  ELSE IF x.n = 0 /\ y.n > 0 THEN Ok(Num(0))
  ELSE Unmodelled

RECURSIVE IntSqrtFrom(_, _)
IntSqrtFrom(n, r) == IF r * r >= n THEN r ELSE IntSqrtFrom(n, r + 1)
IsSquare(n) == LET r == IntSqrtFrom(n, 0) IN r * r = n

\* f64::sqrt on a non-negative argument
MathSqrt(x) ==
  IF IsExact(x) /\ IsSquare(x.n) /\ IsSquare(x.d)
    THEN Ok(Rat(IntSqrtFrom(x.n, 0), IntSqrtFrom(x.d, 0)))
  ELSE Unmodelled

\* the library functions at the points where their double result is known
MathCos(x) == IF IsZero(x) THEN Ok(Num(1))
              ELSE IF x = PI \/ x = Neg(PI) THEN Ok(Num(-1)) ELSE Unmodelled
MathSin(x) == IF IsZero(x) THEN Ok(Num(0)) ELSE Unmodelled
MathTan(x) == IF IsZero(x) THEN Ok(Num(0)) ELSE Unmodelled
MathAsin(x) == IF IsZero(x) THEN Ok(Num(0)) ELSE Unmodelled
MathAcos(x) == IF x = Num(1) THEN Ok(Num(0)) ELSE Unmodelled
MathAtan(x) == IF IsZero(x) THEN Ok(Num(0)) ELSE Unmodelled
MathExp(x) == IF IsZero(x) THEN Ok(Num(1)) ELSE Unmodelled
MathLog2(x) == IF x = Num(1) THEN Ok(Num(0)) ELSE Unmodelled
MathLog10(x) == IF x = Num(1) THEN Ok(Num(0)) ELSE Unmodelled
\* f64::log(self, base) = ln(self) / ln(base)
MathLog(x, base) ==
  IF x = Num(1) /\ GreaterThan(base, 1) THEN Ok(Num(0)) ELSE Unmodelled

(***************************************************************************)
(* lexer.rs: Op, Func, Token.                                              *)
(***************************************************************************)
Op == {"Add", "Sub", "Mul", "Div", "Pow"}

Func0(name) == [name |-> name]
Log(base) == [name |-> "Log", base |-> base]
Root(base) == [name |-> "Root", base |-> base]

Literal(v) == [type |-> "Literal", value |-> v]
Operator(op) == [type |-> "Operator", op |-> op]
Function(f) == [type |-> "Function", func |-> f]
LeftBracket == [type |-> "LeftBracket"]
RightBracket == [type |-> "RightBracket"]
End == [type |-> "End"]

(***************************************************************************)
(* CharStream: the count of next() calls and the characters the fused      *)
(* iterator has left.                                                      *)
(***************************************************************************)
NUL == "\\0"

CharStream_new(input) == [index |-> 0, iterator |-> input]

CharStream_next(stream) ==
  [index |-> stream.index + 1,
   iterator |-> IF stream.iterator = <<>> THEN <<>> ELSE Tail(stream.iterator)]

CharStream_peek(stream) ==
  IF stream.iterator = <<>> THEN NUL ELSE Head(stream.iterator)

UPPER == <<"A","B","C","D","E","F","G","H","I","J","K","L","M",
           "N","O","P","Q","R","S","T","U","V","W","X","Y","Z">>
LOWER == <<"a","b","c","d","e","f","g","h","i","j","k","l","m",
           "n","o","p","q","r","s","t","u","v","w","x","y","z">>
Range(f) == {f[i] : i \in DOMAIN f}
IDENTS == Range(UPPER) \cup Range(LOWER)
DIGITS == {"1", "2", "3", "4", "5", "6", "7", "8", "9", "0", "."}

\* char::is_whitespace on the characters of the model
is_whitespace(c) == c \in {" ", "\t"}

to_ascii_lowercase(buffer) ==
  [i \in DOMAIN buffer |->
     IF buffer[i] \in Range(UPPER)
       THEN LOWER[CHOOSE k \in DOMAIN UPPER : UPPER[k] = buffer[i]]
       ELSE buffer[i]]

\* the loop  while SET.contains(c) { buffer.push(c); stream.next(); c = stream.peek(); }
RECURSIVE TakeWhile(_, _, _)
TakeWhile(stream, set, buffer) ==
  LET c == CharStream_peek(stream)
  IN  IF c \in set
        THEN TakeWhile(CharStream_next(stream), set, Append(buffer, c))
        ELSE [buffer |-> buffer, stream |-> stream]

DigitValue(c) == CHOOSE k \in 0..9 : <<"0","1","2","3","4","5","6","7","8","9">>[k + 1] = c

RECURSIVE DigitsValue(_)
DigitsValue(ds) ==
  IF ds = <<>> THEN 0
  ELSE 10 * DigitsValue(SubSeq(ds, 1, Len(ds) - 1)) + DigitValue(ds[Len(ds)])

RECURSIVE Pow10(_)
Pow10(k) == IF k = 0 THEN 1 ELSE 10 * Pow10(k - 1)

\* mutant: a buffer that starts with '.' is no number
ParseFloat_no_leading_dot(buffer) ==
  LET dots == {i \in DOMAIN buffer : buffer[i] = "."}
      digits == SelectSeq(buffer, LAMBDA ch : ch # ".")
  IN  IF Cardinality(dots) > 1 \/ digits = <<>> \/ buffer[1] = "."
        THEN Err("invalid float literal")
        ELSE LET frac == IF dots = {} THEN 0
                         ELSE Len(buffer) - (CHOOSE i \in dots : TRUE)
             IN  Ok(Rat(DigitsValue(digits), Pow10(frac)))

\* str::parse::<f64> on a buffer of digits and '.': at most one '.', at least
\* one digit
ParseFloat(buffer) ==
  LET dots == {i \in DOMAIN buffer : buffer[i] = "."}
      digits == SelectSeq(buffer, LAMBDA ch : ch # ".")
  IN  IF Cardinality(dots) > 1 \/ digits = <<>>
        THEN Err("invalid float literal")
        ELSE LET frac == IF dots = {} THEN 0
                         ELSE Len(buffer) - (CHOOSE i \in dots : TRUE)
             IN  Ok(Rat(DigitsValue(digits), Pow10(frac)))

RECURSIVE parse_token(_)

\* mutant: the argument is read from a copy of the stream, which stays where
\* it was
parse_func_argument_peeking(stream) ==
  LET t == parse_token(stream)
  IN  IF t.r.ok /\ t.r.val.type = "Literal"
        THEN [r |-> Ok(t.r.val.value), stream |-> stream]
        ELSE [r |-> Err("Unable to parse function argument"), stream |-> stream]

parse_func_argument(stream) ==
  LET t == parse_token(stream)
  IN  IF t.r.ok /\ t.r.val.type = "Literal"
        THEN [r |-> Ok(t.r.val.value), stream |-> t.stream]
        ELSE [r |-> Err("Unable to parse function argument"), stream |-> t.stream]

\* the match on the lower-cased identifier
ParseIdent(name, stream) ==
  LET done(tok) == [r |-> Ok(tok), stream |-> stream]
      withArg(F(_)) ==
        LET a == parse_func_argument(stream)
        IN  IF a.r.ok THEN [r |-> Ok(Function(F(a.r.val))), stream |-> a.stream]
            ELSE a
  IN  CASE name = <<"a","b","s">> -> done(Function(Func0("Abs")))
        [] name = <<"s","q","r","t">> -> done(Function(Func0("Sqrt")))
        [] name = <<"l","o","g">> -> withArg(Log)
        [] name = <<"s","i","n">> -> done(Function(Func0("Sin")))
        [] name = <<"c","o","s">> -> done(Function(Func0("Cos")))
        [] name \in {<<"t","g">>, <<"t","a","n">>} -> done(Function(Func0("Tg")))
        [] name \in {<<"c","t","g">>, <<"c","o","t","a","n">>} ->
             done(Function(Func0("Ctg")))
        [] name \in {<<"a","s","i","n">>, <<"a","r","c","s","i","n">>} ->
             done(Function(Func0("Asin")))
        [] name \in {<<"a","c","o","s">>, <<"a","r","c","c","o","s">>} ->
             done(Function(Func0("Acos")))
        [] name \in {<<"a","t","a","n">>, <<"a","r","c","t","a","n">>} ->
             done(Function(Func0("Atan")))
        [] name = <<"e","x","p">> -> done(Function(Func0("Exp")))
        [] name = <<"r","o","o","t">> -> withArg(Root)
        [] name = <<"p","i">> -> done(Literal(PI))
        [] name = <<"e">> -> done(Literal(E))
        [] name = <<"p","h","i">> -> done(Literal(PHI))
        [] OTHER -> [r |-> Err("Unknown identifier"), stream |-> stream]

\* the final match on a single character
ParseSymbol(c) ==
  CASE c = "(" -> Ok(LeftBracket)
    [] c = ")" -> Ok(RightBracket)
    [] c = "+" -> Ok(Operator("Add"))
    [] c = "-" -> Ok(Operator("Sub"))
    [] c = "*" -> Ok(Operator("Mul"))
    [] c = "/" -> Ok(Operator("Div"))
    [] c = "^" -> Ok(Operator("Pow"))
    [] OTHER -> Err("Unknown token")

\* Ok(Token::Literal(buffer.parse()?))
LiteralOf(r) == IF r.ok THEN Ok(Literal(r.val)) ELSE r

parse_token(stream) ==
  LET c == CharStream_peek(stream)
  IN  IF c \in IDENTS
        THEN LET w == TakeWhile(stream, IDENTS, <<>>)
             IN  ParseIdent(to_ascii_lowercase(w.buffer), w.stream)
      ELSE IF c \in DIGITS
        THEN LET w == TakeWhile(stream, DIGITS, <<>>)
             IN  IF Len(w.buffer) = 0 /\ Head(w.buffer) = "."
                   THEN [r |-> Err("Invalid numeric literal"), stream |-> w.stream]
                   ELSE [r |-> LiteralOf(ParseFloat(w.buffer)), stream |-> w.stream]
      ELSE [r |-> ParseSymbol(c), stream |-> CharStream_next(stream)]

(***************************************************************************)
(* Lexer: the token vector and the cursor.                                 *)
(***************************************************************************)
\* the loop of Lexer::new
RECURSIVE LexLoop(_, _)
LexLoop(stream, tokens) ==
  LET c == CharStream_peek(stream)
  IN  IF c = NUL THEN Ok([index |-> 0, tokens |-> tokens])
      ELSE IF is_whitespace(c) THEN LexLoop(CharStream_next(stream), tokens)
      ELSE LET t == parse_token(stream)
           IN  IF t.r.ok THEN LexLoop(t.stream, Append(tokens, t.r.val))
               ELSE t.r

Lexer_new(input) == LexLoop(CharStream_new(input), <<>>)

tokenize(input) == Lexer_new(input)

Lexer_peek(lx) ==
  IF lx.index + 1 \in DOMAIN lx.tokens THEN lx.tokens[lx.index + 1] ELSE End

\* the token returned and the lexer after the call
Lexer_next(lx) ==
  [token |-> Lexer_peek(lx), lexer |-> [lx EXCEPT !.index = lx.index + 1]]

(***************************************************************************)
(* parser.rs: Node.                                                        *)
(***************************************************************************)
Immediate(v) == [type |-> "Immediate", value |-> v]
BinOp(op, l, r) == [type |-> "BinOp", op |-> op, left |-> l, right |-> r]
FuncNode(f, n) == [type |-> "Func", func |-> f, arg |-> n]

(***************************************************************************)
(* eval.rs                                                                 *)
(***************************************************************************)
\* mutant: Div without the zero check
Op_evaluate_unchecked(op, left, right) ==
  CASE op = "Add" -> FloatAdd(left, right)
    [] op = "Sub" -> FloatSub(left, right)
    [] op = "Mul" -> FloatMul(left, right)
    [] op = "Div" -> FloatDiv(left, right)
    [] op = "Pow" -> Powf(left, right)

Op_evaluate(op, left, right) ==
  CASE op = "Add" -> FloatAdd(left, right)
    [] op = "Sub" -> FloatSub(left, right)
    [] op = "Mul" -> FloatMul(left, right)
    [] op = "Div" ->
         IF IsZero(right) THEN Err("Invalid operation: division by zero")
         ELSE FloatDiv(left, right)
    [] op = "Pow" -> Powf(left, right)

Func_evaluate(func, arg) ==
  CASE func.name = "Abs" -> Ok(IF arg.n < 0 THEN Neg(arg) ELSE arg)
    [] func.name = "Sqrt" ->
         IF LessThan(arg, 0)
           THEN Err("Invalid operation: square root of negative number")
           ELSE MathSqrt(arg)
    [] func.name = "Log" ->
         IF func.base = Num(2) THEN MathLog2(arg)
         ELSE IF func.base = Num(10) THEN MathLog10(arg)
         ELSE MathLog(arg, func.base)
    [] func.name = "Cos" -> MathCos(arg)
    [] func.name = "Sin" -> MathSin(arg)
    [] func.name = "Tg" -> MathTan(arg)
    [] func.name = "Ctg" ->
         LET t == MathTan(arg)
         IN  IF t.ok THEN Op_evaluate("Div", Num(1), t.val) ELSE t
    [] func.name = "Asin" ->
         IF LessThan(arg, -1) \/ GreaterThan(arg, 1)
           THEN Err("Invalid operation: arcsine out of range")
           ELSE MathAsin(arg)
    [] func.name = "Acos" ->
         IF LessThan(arg, -1) \/ GreaterThan(arg, 1)
           THEN Err("Invalid operation: arccosine out of range")
           ELSE MathAcos(arg)
    [] func.name = "Atan" -> MathAtan(arg)
    [] func.name = "Exp" -> MathExp(arg)
    [] func.name = "Root" ->
         LET e == Op_evaluate("Div", Num(1), func.base)
         IN  IF e.ok THEN Powf(arg, e.val) ELSE e

RECURSIVE Node_evaluate(_)
Node_evaluate(node) ==
  CASE node.type = "Immediate" -> Ok(node.value)
    [] node.type = "BinOp" ->
         LET l == Node_evaluate(node.left)
         IN  IF ~l.ok THEN l
             ELSE LET r == Node_evaluate(node.right)
                  IN  IF ~r.ok THEN r ELSE Op_evaluate(node.op, l.val, r.val)
    [] node.type = "Func" ->
         LET a == Node_evaluate(node.arg)
         IN  IF ~a.ok THEN a ELSE Func_evaluate(node.func, a.val)

(***************************************************************************)
(* parser.rs: each function returns its Result and the lexer it leaves.    *)
(* The functions call one another through Call, which dispatches on the    *)
(* name of the callee.                                                     *)
(***************************************************************************)
RECURSIVE Call(_, _, _)

\* mutant: a missing ')' is reported as an unexpected token
parse_primary_one_error(lx, bracket) ==
  LET n == Lexer_next(lx)
  IN  IF n.token = Operator("Sub") /\ ~bracket
        THEN LET value == Call("parse_primary", n.lexer, FALSE)
             IN  IF ~value.r.ok THEN value
                 ELSE LET v == Node_evaluate(value.r.val)
                      IN  [r |-> IF v.ok THEN Ok(Immediate(Neg(v.val))) ELSE v,
                           lexer |-> value.lexer]
      ELSE IF n.token.type = "Literal" /\ ~bracket
        THEN [r |-> Ok(Immediate(n.token.value)), lexer |-> n.lexer]
      ELSE IF n.token = LeftBracket
        THEN LET value == Call("parse_expression", n.lexer, FALSE)
             IN  IF ~value.r.ok THEN value
                 ELSE LET m == Lexer_next(value.lexer)
                      IN  [r |-> IF m.token = RightBracket THEN value.r
                                 ELSE Err("Unexpected token"),
                           lexer |-> m.lexer]
      ELSE [r |-> Err("Unexpected token"), lexer |-> n.lexer]

\* mutant: the unary minus is accepted in a function's argument
parse_primary_minus_in_argument(lx, bracket) ==
  LET n == Lexer_next(lx)
  IN  IF n.token = Operator("Sub")
        THEN LET value == Call("parse_primary", n.lexer, FALSE)
             IN  IF ~value.r.ok THEN value
                 ELSE LET v == Node_evaluate(value.r.val)
                      IN  [r |-> IF v.ok THEN Ok(Immediate(Neg(v.val))) ELSE v,
                           lexer |-> value.lexer]
      ELSE IF n.token.type = "Literal" /\ ~bracket
        THEN [r |-> Ok(Immediate(n.token.value)), lexer |-> n.lexer]
      ELSE IF n.token = LeftBracket
        THEN LET value == Call("parse_expression", n.lexer, FALSE)
             IN  IF ~value.r.ok THEN value
                 ELSE LET m == Lexer_next(value.lexer)
                      IN  [r |-> IF m.token = RightBracket THEN value.r
                                 ELSE Err("Parenthesis don't match"),
                           lexer |-> m.lexer]
      ELSE [r |-> Err("Unexpected token"), lexer |-> n.lexer]

\* mutant: the unary minus builds the node 0 - operand
parse_primary_deferred_minus(lx, bracket) ==
  LET n == Lexer_next(lx)
  IN  IF n.token = Operator("Sub") /\ ~bracket
        THEN LET value == Call("parse_primary", n.lexer, FALSE)
             IN  IF ~value.r.ok THEN value
                 ELSE [r |-> Ok(BinOp("Sub", Immediate(Num(0)), value.r.val)),
                       lexer |-> value.lexer]
      ELSE IF n.token.type = "Literal" /\ ~bracket
        THEN [r |-> Ok(Immediate(n.token.value)), lexer |-> n.lexer]
      ELSE IF n.token = LeftBracket
        THEN LET value == Call("parse_expression", n.lexer, FALSE)
             IN  IF ~value.r.ok THEN value
                 ELSE LET m == Lexer_next(value.lexer)
                      IN  [r |-> IF m.token = RightBracket THEN value.r
                                 ELSE Err("Parenthesis don't match"),
                           lexer |-> m.lexer]
      ELSE [r |-> Err("Unexpected token"), lexer |-> n.lexer]

\* mutant: a literal is accepted in a function's argument
parse_primary_literal_in_argument(lx, bracket) ==
  LET n == Lexer_next(lx)
  IN  IF n.token = Operator("Sub") /\ ~bracket
        THEN LET value == Call("parse_primary", n.lexer, FALSE)
             IN  IF ~value.r.ok THEN value
                 ELSE LET v == Node_evaluate(value.r.val)
                      IN  [r |-> IF v.ok THEN Ok(Immediate(Neg(v.val))) ELSE v,
                           lexer |-> value.lexer]
      ELSE IF n.token.type = "Literal"
        THEN [r |-> Ok(Immediate(n.token.value)), lexer |-> n.lexer]
      ELSE IF n.token = LeftBracket
        THEN LET value == Call("parse_expression", n.lexer, FALSE)
             IN  IF ~value.r.ok THEN value
                 ELSE LET m == Lexer_next(value.lexer)
                      IN  [r |-> IF m.token = RightBracket THEN value.r
                                 ELSE Err("Parenthesis don't match"),
                           lexer |-> m.lexer]
      ELSE [r |-> Err("Unexpected token"), lexer |-> n.lexer]

parse_primary(lx, bracket) ==
  LET n == Lexer_next(lx)
  IN  IF n.token = Operator("Sub") /\ ~bracket
        THEN LET value == Call("parse_primary", n.lexer, FALSE)
             IN  IF ~value.r.ok THEN value
                 ELSE LET v == Node_evaluate(value.r.val)
                      IN  [r |-> IF v.ok THEN Ok(Immediate(Neg(v.val))) ELSE v,
                           lexer |-> value.lexer]
      ELSE IF n.token.type = "Literal" /\ ~bracket
        THEN [r |-> Ok(Immediate(n.token.value)), lexer |-> n.lexer]
      ELSE IF n.token = LeftBracket
        THEN LET value == Call("parse_expression", n.lexer, FALSE)
             IN  IF ~value.r.ok THEN value
                 ELSE LET m == Lexer_next(value.lexer)
                      IN  [r |-> IF m.token = RightBracket THEN value.r
                                 ELSE Err("Parenthesis don't match"),
                           lexer |-> m.lexer]
      ELSE [r |-> Err("Unexpected token"), lexer |-> n.lexer]

parse_func(lx) ==
  IF Lexer_peek(lx).type = "Function"
    THEN LET func == Lexer_peek(lx).func
             arg == Call("parse_primary", Lexer_next(lx).lexer, TRUE)
         IN  IF ~arg.r.ok THEN arg
             ELSE [r |-> Ok(FuncNode(func, arg.r.val)), lexer |-> arg.lexer]
    ELSE Call("parse_primary", lx, FALSE)

\* mutant: '^' folds to the right
power_loop_right(lx, left) ==
  IF Lexer_peek(lx) = Operator("Pow")
    THEN LET right == Call("parse_power", Lexer_next(lx).lexer, FALSE)
         IN  IF ~right.r.ok THEN right
             ELSE [r |-> Ok(BinOp("Pow", left, right.r.val)), lexer |-> right.lexer]
    ELSE [r |-> Ok(left), lexer |-> lx]

\* the loop of parse_power, entered with left
power_loop(lx, left) ==
  IF Lexer_peek(lx) = Operator("Pow")
    THEN LET right == Call("parse_func", Lexer_next(lx).lexer, FALSE)
         IN  IF ~right.r.ok THEN right
             ELSE Call("power_loop", right.lexer, BinOp("Pow", left, right.r.val))
    ELSE [r |-> Ok(left), lexer |-> lx]

parse_power(lx) ==
  LET left == Call("parse_func", lx, FALSE)
  IN  IF ~left.r.ok THEN left ELSE Call("power_loop", left.lexer, left.r.val)

\* the loop of parse_multiplicative, entered with left
multiplicative_loop(lx, left) ==
  LET t == Lexer_peek(lx)
  IN  IF t.type = "Operator" /\ (t.op = "Mul" \/ t.op = "Div")
        THEN LET right == Call("parse_power", Lexer_next(lx).lexer, FALSE)
             IN  IF ~right.r.ok THEN right
                 ELSE Call("multiplicative_loop", right.lexer,
                           BinOp(t.op, left, right.r.val))
        ELSE [r |-> Ok(left), lexer |-> lx]

parse_multiplicative(lx) ==
  LET left == Call("parse_power", lx, FALSE)
  IN  IF ~left.r.ok THEN left
      ELSE Call("multiplicative_loop", left.lexer, left.r.val)

\* mutant: the loop ends with Ok at any token that is not '+' or '-', as the
\* loops of parse_power and parse_multiplicative do
additive_loop_lenient(lx, left) ==
  LET t == Lexer_peek(lx)
  IN  IF t.type = "Operator" /\ (t.op = "Add" \/ t.op = "Sub")
        THEN LET right == Call("parse_multiplicative", Lexer_next(lx).lexer, FALSE)
             IN  IF ~right.r.ok THEN right
                 ELSE Call("additive_loop", right.lexer,
                           BinOp(t.op, left, right.r.val))
      ELSE [r |-> Ok(left), lexer |-> lx]

\* the loop of parse_additive, entered with left
additive_loop(lx, left) ==
  LET t == Lexer_peek(lx)
  IN  IF t.type = "Operator" /\ (t.op = "Add" \/ t.op = "Sub")
        THEN LET right == Call("parse_multiplicative", Lexer_next(lx).lexer, FALSE)
             IN  IF ~right.r.ok THEN right
                 ELSE Call("additive_loop", right.lexer,
                           BinOp(t.op, left, right.r.val))
      ELSE IF t = End THEN [r |-> Ok(left), lexer |-> lx]
      ELSE [r |-> Err("Unexpected token"), lexer |-> lx]

parse_additive(lx) ==
  LET left == Call("parse_multiplicative", lx, FALSE)
  IN  IF ~left.r.ok THEN left ELSE Call("additive_loop", left.lexer, left.r.val)

parse_expression(lx) == Call("parse_additive", lx, FALSE)

\* arg is the bracket flag of parse_primary and the left node of a loop
Call(fn, lx, arg) ==
  CASE fn = "parse_primary" -> parse_primary(lx, arg)
    [] fn = "parse_func" -> parse_func(lx)
    [] fn = "power_loop" -> power_loop(lx, arg)
    [] fn = "parse_power" -> parse_power(lx)
    [] fn = "multiplicative_loop" -> multiplicative_loop(lx, arg)
    [] fn = "parse_multiplicative" -> parse_multiplicative(lx)
    [] fn = "additive_loop" -> additive_loop(lx, arg)
    [] fn = "parse_additive" -> parse_additive(lx)
    [] fn = "parse_expression" -> parse_expression(lx)

(***************************************************************************)
(* The inputs: texts of the tests (lexer.rs, eval.rs) and of main's loop.  *)
(***************************************************************************)
TestNumbers == <<"1"," ",".","2"," ","3","."," ","4",".","5">>
TestSymbols == <<"+"," ","-"," ","*"," ","/"," ","^">>
TestFunctionNames == <<"s","q","r","t"," ","l","o","g","2"," ","a","b","s"," ","s","i","n"," ","c","o","s">>
TestAddSub == <<"1"," ","+"," ","2"," ","-"," ","4">>
TestSubDiv == <<"5"," ","-"," ","1"," ","/"," ","2">>
TestMulPow == <<"2"," ","*"," ","3"," ","^"," ","2">>
TestSqrtAbs == <<"s","q","r","t","(","a","b","s","(","-","2",")",")">>
TestCosPi == <<"c","o","s","(","p","i",")">>
TestSinLog == <<"s","i","n","(","l","o","g","2","(","1","0",")",")">>
TextDivZero == <<"1","/","0">>
TextSqrtNeg == <<"s","q","r","t","(","-","1",")">>
TextAsinTwo == <<"a","s","i","n","(","2",")">>
TextAbsMinus == <<"a","b","s","-","2">>
TextOpenParen == <<"(","1"," ","+"," ","2">>
TextCloseParen == <<"1"," ","+"," ","2",")">>
TextMinusAbs == <<"-","a","b","s","(","-","2",")">>
TextAbsLiteral == <<"a","b","s"," ","2">>

LexerTests == {TestNumbers, TestSymbols, TestFunctionNames}
EvalTests == {TestAddSub, TestSubDiv, TestMulPow, TestSqrtAbs, TestCosPi, TestSinLog}
ErrorTexts == {TextDivZero, TextSqrtNeg, TextAsinTwo, TextAbsMinus, TextOpenParen,
               TextCloseParen, TextMinusAbs, TextAbsLiteral}

\* every sequence over S of length at most n
Strs(S, n) == UNION {[1..k -> S] : k \in 0..n}

RECURSIVE Join(_, _)
Join(words, sep) ==
  IF words = <<>> THEN <<>>
  ELSE IF Len(words) = 1 THEN words[1]
  ELSE words[1] \o sep \o Join(Tail(words), sep)

LexAlphabet == {" ", "1", ".", "+", "-", "*", "/", "^", "(", ")"}
ParamWords == {<<"l","o","g">>, <<"r","o","o","t">>, <<"L","o","g">>}
Prefixes == {<<>>, <<"2","*">>}

\* raw character strings, and log / root followed by raw characters
RawTexts == Strs(LexAlphabet, MaxChars)
ParamTexts == {p \o w \o s : p \in Prefixes, w \in ParamWords,
                             s \in Strs(LexAlphabet, MaxArgChars)}

LiteralLexemes == {<<"0">>, <<"1">>, <<"2">>}
OperatorLexemes == {<<"+">>, <<"-">>, <<"*">>, <<"/">>, <<"^">>}
Lexemes == LiteralLexemes \cup OperatorLexemes
             \cup {<<"(">>, <<")">>, <<"a","b","s">>}

\* one lexeme per token, separated by a blank
LexemeTexts == {Join(ws, <<" ">>) : ws \in Strs(Lexemes, MaxToks)}

\* literal, operator, literal, ..., literal
Operands == {<<"1">>, <<"2">>, <<"3">>}
RECURSIVE Alternating(_)
Alternating(k) ==
  IF k = 1 THEN {<<w>> : w \in Operands}
  ELSE Alternating(k - 1) \cup
       {ws \o <<o, w>> : ws \in Alternating(k - 1), o \in OperatorLexemes,
                         w \in Operands}
AlternatingTexts == {Join(ws, <<" ">>) : ws \in Alternating(MaxOperands)}

\* ( E   and   E )   for an alternating E
ParenTexts == {<<"(", " ">> \o t : t \in AlternatingTexts}
                \cup {t \o <<" ", ")">> : t \in AlternatingTexts}

\* operands with unary minuses and function names in front, alone and on
\* both sides of an operator
SignedOperands == {<<"2">>, <<"-", " ", "2">>, <<"-", " ", "-", " ", "2">>,
                   <<"a","b","s", " ", "2">>, <<"a","b","s", " ", "-", " ", "2">>,
                   <<"-", " ", "a","b","s", " ", "(", " ", "2", " ", ")">>}
SignedTexts == SignedOperands \cup
               {Join(<<a, o, b>>, <<" ">>) : a \in SignedOperands, o \in OperatorLexemes,
                                            b \in SignedOperands}

\* a/b
DivTexts == {a \o <<"/">> \o b : a \in LiteralLexemes, b \in LiteralLexemes}

(***************************************************************************)
(* Well-formed calls f(A), as trees and as the text that writes them.      *)
(***************************************************************************)
CallFuncs == {Func0("Abs"), Func0("Sqrt"), Func0("Cos"), Log(Num(2))}
CallLiterals == {Num(1), Num(2), Num(-2)}

RECURSIVE CallExprs(_)
CallExprs(depth) ==
  LET lits == {Immediate(v) : v \in CallLiterals}
      bins == {BinOp(op, a, b) : op \in Op, a \in lits, b \in lits}
  IN  IF depth = 0 THEN lits \cup bins
      ELSE lits \cup bins \cup
           {FuncNode(f, a) : f \in CallFuncs, a \in CallExprs(depth - 1)}

\* the trees of tests::test_functions that the generated ones leave out
TreeCosPi == FuncNode(Func0("Cos"), Immediate(PI))
TreeSinLog == FuncNode(Func0("Sin"), FuncNode(Log(Num(2)), Immediate(Num(10))))

CallTrees == {FuncNode(f, a) : f \in CallFuncs, a \in CallExprs(MaxCallDepth - 1)}
               \cup {TreeCosPi, TreeSinLog}

RECURSIVE RenderNat(_)
RenderNat(n) ==
  LET d == <<"0","1","2","3","4","5","6","7","8","9">>[(n % 10) + 1]
  IN  IF n < 10 THEN <<d>> ELSE Append(RenderNat(n \div 10), d)

RenderNum(v) == IF v = PI THEN <<"p","i">>
                ELSE IF v.n < 0 THEN <<"-">> \o RenderNat(-v.n) ELSE RenderNat(v.n)

RenderFunc(f) ==
  CASE f.name = "Abs" -> <<"a","b","s">>
    [] f.name = "Sqrt" -> <<"s","q","r","t">>
    [] f.name = "Cos" -> <<"c","o","s">>
    [] f.name = "Sin" -> <<"s","i","n">>
    [] f.name = "Log" -> <<"l","o","g">> \o RenderNum(f.base)

RenderOp(op) ==
  CASE op = "Add" -> <<"+">> [] op = "Sub" -> <<"-">> [] op = "Mul" -> <<"*">>
    [] op = "Div" -> <<"/">> [] op = "Pow" -> <<"^">>

RECURSIVE Render(_)
Render(node) ==
  CASE node.type = "Immediate" -> RenderNum(node.value)
    [] node.type = "BinOp" ->
         Render(node.left) \o RenderOp(node.op) \o Render(node.right)
    [] node.type = "Func" ->
         RenderFunc(node.func) \o <<"(">> \o Render(node.arg) \o <<")">>

CallTexts == {Render(t) : t \in CallTrees}

\* -f(A)
MinusCallTexts == {<<"-">> \o t : t \in CallTexts}

(***************************************************************************)
(* Trees handed to Node::evaluate directly.                                *)
(***************************************************************************)
EvalLeaves == {Immediate(Num(0)), Immediate(Num(1)), Immediate(Num(2))}
EvalFuncs == {Func0("Abs"), Func0("Sqrt"), Func0("Tg"), Func0("Ctg"),
              Root(Num(0)), Root(Num(2))}

RECURSIVE Trees(_)
Trees(nodes) ==
  IF nodes = 1 THEN EvalLeaves
  ELSE {FuncNode(f, a) : f \in EvalFuncs, a \in Trees(nodes - 1)}
       \cup UNION {{BinOp(op, a, b) : op \in Op, a \in Trees(k),
                                      b \in Trees(nodes - 1 - k)} :
                   k \in 1..(nodes - 2)}

EvalTrees == UNION {Trees(k) : k \in 1..MaxNodes}

(***************************************************************************)
(* The pipeline of main: tokenize, parse_expression, evaluate.             *)
(***************************************************************************)
NoToken == [type |-> "None"]

InitText(texts) ==
  /\ text \in texts
  /\ pc = "input"
  /\ lexer = NotRun
  /\ token = NoToken
  /\ ast = NotRun
  /\ result = NotRun

InitTree(trees) ==
  /\ text = <<>>
  /\ pc = "parsed"
  /\ lexer = NotRun
  /\ token = NoToken
  /\ ast \in {Ok(t) : t \in trees}
  /\ result = NotRun

\* let mut lexer = match tokenize(input) { Ok(lexer) => lexer, Err(report) => continue }
Tokenize ==
  /\ pc = "input"
  /\ lexer' = tokenize(text)
  /\ pc' = IF lexer'.ok THEN "lexed" ELSE "lex_error"
  /\ UNCHANGED <<text, token, ast, result>>

\* lexer.next(), as the tests of lexer.rs call it on the tokenized input
LexerNext ==
  /\ pc \in {"lexed", "drain"}
  /\ lexer.val.index < Len(lexer.val.tokens) + MaxExtraNext
  /\ token' = Lexer_next(lexer.val).token
  /\ lexer' = Ok(Lexer_next(lexer.val).lexer)
  /\ pc' = "drain"
  /\ UNCHANGED <<text, ast, result>>

\* let ast = match parse_expression(&mut lexer) { ... }, on the fresh lexer
Parse ==
  /\ pc = "lexed"
  /\ LET p == parse_expression(lexer.val)
     IN  /\ ast' = p.r
         /\ lexer' = Ok(p.lexer)
  /\ pc' = "parsed"
  /\ UNCHANGED <<text, token, result>>

\* let result = ast.evaluate();
Evaluate ==
  /\ pc = "parsed"
  /\ ast.ok
  /\ result' = Node_evaluate(ast.val)
  /\ pc' = "done"
  /\ UNCHANGED <<text, lexer, token, ast>>

\* main: one line of input through the pipeline
Next == Tokenize \/ Parse \/ Evaluate

\* the tests of lexer.rs: tokenize, then next() until End
NextLex == Tokenize \/ LexerNext

Init == InitText(LexemeTexts \cup AlternatingTexts \cup ParenTexts \cup SignedTexts
                   \cup CallTexts \cup MinusCallTexts \cup EvalTests \cup ErrorTexts)
Spec == Init /\ [][Next]_vars

InitLex == InitText(RawTexts \cup ParamTexts \cup LexerTests)
SpecLex == InitLex /\ [][NextLex]_vars

InitEval == InitText(DivTexts) \/ InitTree(EvalTrees)
SpecEval == InitEval /\ [][Next]_vars

(***************************************************************************)
(* Properties.                                                             *)
(***************************************************************************)
Tokens == lexer.val.tokens
Tokenized == pc \in {"lexed", "drain", "parsed", "done"} /\ lexer.ok
Parsed == pc \in {"parsed", "done"} /\ lexer.ok

UnexpectedToken == Err("Unexpected token")
MismatchedParenthesis == Err("Parenthesis don't match")
DivisionByZero == Err("Invalid operation: division by zero")
InvalidFunctionArgument == Err("Unable to parse function argument")
InvalidNumber == Err("invalid float literal")

IsOperator(t) == t.type = "Operator"
IsLiteral(t) == t.type = "Literal"

\* literal, operator, literal, ..., literal
IsAlternating(ts) ==
  /\ Len(ts) % 2 = 1
  /\ \A i \in DOMAIN ts : IF i % 2 = 1 THEN IsLiteral(ts[i]) ELSE IsOperator(ts[i])

Max(S) == CHOOSE x \in S : \A y \in S : y <= x

\* The tree of the precedence grammar for an alternating sequence: split at
\* the last operator of the loosest tier present ('+' '-', then '*' '/',
\* then '^'), so that every tier folds to the left.
RECURSIVE GrammarTree(_)
GrammarTree(ts) ==
  LET at(tier) == {i \in DOMAIN ts : IsOperator(ts[i]) /\ ts[i].op \in tier}
      adds == at({"Add", "Sub"})
      muls == at({"Mul", "Div"})
      pows == at({"Pow"})
      i == Max(IF adds # {} THEN adds ELSE IF muls # {} THEN muls ELSE pows)
  IN  IF Len(ts) = 1 THEN Immediate(ts[1].value)
      ELSE BinOp(ts[i].op, GrammarTree(SubSeq(ts, 1, i - 1)),
                 GrammarTree(SubSeq(ts, i + 1, Len(ts))))

CallTreeOf(t) == CHOOSE tree \in CallTrees : Render(tree) = t

\* C1: for a function name applied to a parenthesized well-formed expression
\* (nested calls included) tokenize succeeds, parse_expression returns
\* FunctionCall(f, A) with A the tree of the expression between the
\* parentheses, and evaluate returns f applied to the value of A.
C1_CallPipeline ==
  text \in CallTexts =>
    /\ pc # "lex_error"
    /\ pc \in {"parsed", "done"} => ast = Ok(CallTreeOf(text))
    /\ pc = "done" =>
         LET a == Node_evaluate(CallTreeOf(text).arg)
         IN  a.ok => result = Func_evaluate(CallTreeOf(text).func, a.val)

\* C2: a bracket-free sequence literal, op, literal, ..., literal parses to
\* the tree of the precedence grammar ('^' over '*' '/' over '+' '-', every
\* tier folding to the left), and evaluating it gives the value of that
\* grouping: 1 + 2 - 4 = -1, 5 - 1 / 2 = 4.5, 2 * 3 ^ 2 = 18, and
\* 2 ^ 3 ^ 2 = (2^3)^2 = 64, 3 - 2 - 1 = 0, 2 / 1 / 2 = 1.
C2_PrecedenceGrammar ==
  LET is(words) == text = Join(words, <<" ">>)
  IN  /\ (Parsed /\ IsAlternating(Tokens)) =>
           /\ ast = Ok(GrammarTree(Tokens))
           /\ pc = "done" => result = Node_evaluate(GrammarTree(Tokens))
      /\ pc = "done" =>
           /\ text = TestAddSub => result = Ok(Num(-1))
           /\ text = TestSubDiv => result = Ok(Rat(9, 2))
           /\ text = TestMulPow => result = Ok(Num(18))
           /\ is(<< <<"2">>, <<"^">>, <<"3">>, <<"^">>, <<"2">> >>) => result = Ok(Num(64))
           /\ is(<< <<"3">>, <<"-">>, <<"2">>, <<"-">>, <<"1">> >>) => result = Ok(Num(0))
           /\ is(<< <<"2">>, <<"/">>, <<"1">>, <<"/">>, <<"2">> >>) => result = Ok(Num(1))

C2_Witness ==
  /\ pc = "done"
  /\ text = Join(<< <<"2">>, <<"^">>, <<"3">>, <<"^">>, <<"2">> >>, <<" ">>)
  /\ ast = Ok(BinOp("Pow", BinOp("Pow", Immediate(Num(2)), Immediate(Num(3))),
                    Immediate(Num(2))))
  /\ result = Ok(Num(64))

RECURSIVE Subtrees(_)
Subtrees(node) ==
  CASE node.type = "Immediate" -> {node}
    [] node.type = "BinOp" -> {node} \cup Subtrees(node.left) \cup Subtrees(node.right)
    [] node.type = "Func" -> {node} \cup Subtrees(node.arg)

\* the node divides by a divisor that evaluates to zero: a Div whose right
\* operand is 0, a Root of degree 0, a Cotan of an x with tan(x) = 0
DividesByZero(node) ==
  CASE node.type = "Immediate" -> FALSE
    [] node.type = "BinOp" ->
         /\ node.op = "Div"
         /\ Node_evaluate(node.left).ok
         /\ Node_evaluate(node.right) = Ok(Num(0))
    [] node.type = "Func" ->
         /\ Node_evaluate(node.arg).ok
         /\ \/ node.func = Root(Num(0))
            \/ /\ node.func = Func0("Ctg")
               /\ MathTan(Node_evaluate(node.arg).val) = Ok(Num(0))

\* C3: every division the evaluator performs rejects a zero divisor: a Div
\* node whose operands evaluate and whose divisor is 0, a Root(0) call and a
\* Cotan call with tan(x) = 0 evaluate to the DivisionByZero error, a tree
\* that holds such a node never evaluates to a number, and the pipeline on
\* "1/0" ends with DivisionByZero.
C3_DivisionByZero ==
  pc = "done" =>
    /\ DividesByZero(ast.val) => result = DivisionByZero
    /\ (\E n \in Subtrees(ast.val) : DividesByZero(n)) => ~result.ok
    /\ text = TextDivZero => result = DivisionByZero

C3_Witness ==
  /\ pc = "done"
  /\ ast.val.type = "BinOp"
  /\ ast.val.op = "Div"
  /\ ast.val.right.type = "Func"
  /\ DividesByZero(ast.val)
  /\ result = DivisionByZero

\* Sub* Literal (op Sub* Literal)* : a well-formed bracket-free expression
RECURSIVE IsFlatExpression(_)
IsFlatExpression(ts) ==
  /\ ts # <<>>
  /\ \/ ts[1] = Operator("Sub") /\ IsFlatExpression(Tail(ts))
     \/ /\ IsLiteral(ts[1])
        /\ \/ Len(ts) = 1
           \/ IsOperator(ts[2]) /\ IsFlatExpression(SubSeq(ts, 3, Len(ts)))

\* C4: '(' followed by a well-formed bracket-free expression and the end of
\* the input fails with "Parenthesis don't match"; a well-formed
\* bracket-free expression followed by a stray ')' fails with "Unexpected
\* token"; neither returns a tree.
C4_ParenthesisErrors ==
  Parsed =>
    /\ (Tokens # <<>> /\ Tokens[1] = LeftBracket /\ IsFlatExpression(Tail(Tokens)))
         => ast = MismatchedParenthesis
    /\ (Tokens # <<>> /\ Tokens[Len(Tokens)] = RightBracket
          /\ IsFlatExpression(SubSeq(Tokens, 1, Len(Tokens) - 1)))
         => ast = UnexpectedToken
    /\ text = TextOpenParen => ast = MismatchedParenthesis
    /\ text = TextCloseParen => ast = UnexpectedToken

C4_Witness ==
  /\ pc = "parsed"
  /\ lexer.ok
  /\ Len(Tokens) = 6
  /\ Tokens[1] = LeftBracket
  /\ IsFlatExpression(Tail(Tokens))
  /\ ast = MismatchedParenthesis

\* C5: when parse_expression on a fresh lexer returns Ok, the cursor has
\* consumed every token: its index is the number of tokens and peek() is
\* End.
C5_FullyConsumed ==
  (Parsed /\ ast.ok) =>
    /\ lexer.val.index = Len(Tokens)
    /\ Lexer_peek(lexer.val) = End

C5_Witness ==
  /\ pc = "parsed"
  /\ lexer.ok
  /\ ast.ok
  /\ Len(Tokens) = 5
  /\ lexer.val.index = 5

\* C6: a token sequence in which a Function token is directly followed by
\* the Sub operator never parses to a tree: parse_expression fails with
\* "Unexpected token".
C6_FunctionMinusRejected ==
  (Parsed /\ \E i \in 1..(Len(Tokens) - 1) :
               Tokens[i].type = "Function" /\ Tokens[i + 1] = Operator("Sub"))
    => ast = UnexpectedToken

C6_Witness ==
  /\ pc = "parsed"
  /\ text = TextAbsMinus
  /\ Tokens = <<Function(Func0("Abs")), Operator("Sub"), Literal(Num(2))>>
  /\ ast = UnexpectedToken

\* the maximal run of characters of set at the head of t
RECURSIVE RunOf(_, _)
RunOf(t, set) ==
  IF t # <<>> /\ t[1] \in set THEN <<t[1]>> \o RunOf(Tail(t), set) ELSE <<>>

Drop(t, k) == SubSeq(t, k + 1, Len(t))

\* the positions of text where an identifier starts
IdentStarts == {i \in DOMAIN text : text[i] \in IDENTS /\ (i = 1 \/ text[i - 1] \notin IDENTS)}

\* C7: where the tokenizer resolves log or root, the maximal run of digits
\* and '.' that immediately follows, if it is a number v, becomes the base
\* of the one Function token Log(v) / Root(v) and yields no Literal token of
\* its own; if what follows is no literal (a blank, an operator, a bracket,
\* the end of the input) tokenize fails with "Unable to parse function
\* argument" and returns no tokens.  So "sqrt log2 abs sin cos" yields
\* [Sqrt, Log(2), Abs, Sin, Cos].
C7_ParameterOfLogAndRoot ==
  /\ pc \in {"lexed", "lex_error"} =>
       \A i \in IdentStarts :
         LET before == tokenize(SubSeq(text, 1, i - 1))
             word == to_ascii_lowercase(RunOf(Drop(text, i - 1), IDENTS))
             after == Drop(text, i - 1 + Len(word))
             run == RunOf(after, DIGITS)
             rest == tokenize(Drop(after, Len(run)))
             F(v) == IF word = <<"l","o","g">> THEN Log(v) ELSE Root(v)
         IN  (before.ok /\ word \in {<<"l","o","g">>, <<"r","o","o","t">>}) =>
               IF run # <<>> /\ ParseFloat(run).ok
                 THEN IF rest.ok
                        THEN /\ lexer.ok
                             /\ Tokens = before.val.tokens
                                           \o <<Function(F(ParseFloat(run).val))>>
                                           \o rest.val.tokens
                        ELSE lexer = rest
                 ELSE lexer = InvalidFunctionArgument
  /\ (pc = "lexed" /\ text = TestFunctionNames) =>
       Tokens = <<Function(Func0("Sqrt")), Function(Log(Num(2))), Function(Func0("Abs")),
                  Function(Func0("Sin")), Function(Func0("Cos"))>>

C7_Witness ==
  /\ pc = "lexed"
  /\ text = <<"2", "*", "r", "o", "o", "t", ".", "1">>
  /\ Tokens = <<Literal(Num(2)), Operator("Mul"), Function(Root(Rat(1, 10)))>>

Symbols == {"(", ")", "+", "-", "*", "/", "^"}

\* the value a run of digits with at most one '.' denotes
DecimalValue(run) ==
  LET whole == RunOf(run, DIGITS \ {"."})
      fraction == Drop(run, Len(whole) + 1)
  IN  Rat(DigitsValue(whole) * Pow10(Len(fraction)) + DigitsValue(fraction),
          Pow10(Len(fraction)))

IsNumber(run) ==
  /\ Cardinality({i \in DOMAIN run : run[i] = "."}) <= 1
  /\ \E i \in DOMAIN run : run[i] # "."

\* The lexemes of a text of blanks, digits, '.' and symbols, in order: each
\* maximal run of digits and '.', and each symbol.
RECURSIVE LexemesOf(_)
LexemesOf(t) ==
  IF t = <<>> THEN <<>>
  ELSE IF is_whitespace(t[1]) THEN LexemesOf(Tail(t))
  ELSE IF t[1] \in DIGITS
    THEN LET run == RunOf(t, DIGITS) IN <<run>> \o LexemesOf(Drop(t, Len(run)))
  ELSE <<(<<t[1]>>)>> \o LexemesOf(Tail(t))

TokenOf(lexeme) ==
  IF lexeme[1] \in DIGITS THEN Literal(DecimalValue(lexeme))
  ELSE CASE lexeme[1] = "(" -> LeftBracket
         [] lexeme[1] = ")" -> RightBracket
         [] lexeme[1] = "+" -> Operator("Add")
         [] lexeme[1] = "-" -> Operator("Sub")
         [] lexeme[1] = "*" -> Operator("Mul")
         [] lexeme[1] = "/" -> Operator("Div")
         [] lexeme[1] = "^" -> Operator("Pow")

\* C8: on a text of blanks, numbers and the characters ( ) + - * / ^ the
\* tokenizer returns one token per lexeme, in order: blanks give no token,
\* a run of digits and '.' with at most one '.' and a digit gives one
\* Literal (".2" and "3." included), any other run makes tokenize fail with
\* the invalid-number error, each symbol gives its own token; next() hands
\* the tokens out in order and, once they are exhausted, returns End on
\* every further call.
C8_OneTokenPerLexeme ==
  /\ (pc # "input" /\ \A i \in DOMAIN text :
                         is_whitespace(text[i]) \/ text[i] \in DIGITS \cup Symbols) =>
       LET lexemes == LexemesOf(text)
       IN  IF \A k \in DOMAIN lexemes : lexemes[k][1] \in DIGITS => IsNumber(lexemes[k])
             THEN /\ lexer.ok
                  /\ Tokens = [k \in DOMAIN lexemes |-> TokenOf(lexemes[k])]
             ELSE lexer = InvalidNumber
  /\ pc = "drain" =>
       token = IF lexer.val.index <= Len(Tokens) THEN Tokens[lexer.val.index] ELSE End
  /\ (Tokenized /\ text = TestNumbers) =>
       Tokens = <<Literal(Num(1)), Literal(Rat(2, 10)), Literal(Num(3)), Literal(Rat(45, 10))>>
  /\ (Tokenized /\ text = TestSymbols) =>
       Tokens = <<Operator("Add"), Operator("Sub"), Operator("Mul"), Operator("Div"),
                  Operator("Pow")>>

C8_Witness ==
  /\ pc = "drain"
  /\ text = TestNumbers
  /\ lexer.val.index = Len(Tokens) + 2
  /\ token = End

\* the Immediate values of a tree, left to right
RECURSIVE Leaves(_)
Leaves(node) ==
  CASE node.type = "Immediate" -> <<node.value>>
    [] node.type = "BinOp" -> Leaves(node.left) \o Leaves(node.right)
    [] node.type = "Func" -> Leaves(node.arg)

\* position i holds a unary minus: a '-' where an operand is expected
IsUnaryMinus(ts, i) ==
  /\ ts[i] = Operator("Sub")
  /\ i = 1 \/ IsOperator(ts[i - 1]) \/ ts[i - 1] = LeftBracket

\* the literals of a token sequence, each negated once per unary minus in
\* front of it
RECURSIVE SignedLiterals(_, _, _)
SignedLiterals(ts, i, negate) ==
  IF i > Len(ts) THEN <<>>
  ELSE IF IsUnaryMinus(ts, i) THEN SignedLiterals(ts, i + 1, ~negate)
  ELSE IF IsLiteral(ts[i])
    THEN <<IF negate THEN Neg(ts[i].value) ELSE ts[i].value>>
           \o SignedLiterals(ts, i + 1, FALSE)
  ELSE SignedLiterals(ts, i + 1, FALSE)

\* C9 as stated: a unary minus whose operand is a function call parses to a
\* single Immediate node holding minus the value of the call; "-abs(-2)"
\* parses and the minus contributes Immediate(-2).
C9_MinusBeforeCallParses ==
  (Parsed /\ text \in MinusCallTexts) =>
    /\ ast.ok
    /\ ast.val.type = "Immediate"
    /\ text = TextMinusAbs => ast = Ok(Immediate(Num(-2)))

\* C9 amended: a unary minus negates the evaluated value of its operand at
\* parse time, so each literal under unary minuses becomes one Immediate
\* node holding the negated value (the leaves of a parsed tree are the
\* signed literals of the input, no node stands for the negation); the
\* operand is a primary, and a Function token directly after a unary minus
\* fails with "Unexpected token", as "-abs(-2)" does.
C9_UnaryMinusIsImmediate ==
  Parsed =>
    /\ ast.ok => Leaves(ast.val) = SignedLiterals(Tokens, 1, FALSE)
    /\ (\E i \in 1..(Len(Tokens) - 1) :
          IsUnaryMinus(Tokens, i) /\ Tokens[i + 1].type = "Function")
         => ast = UnexpectedToken
    /\ text = TextMinusAbs => ast = UnexpectedToken

C9_Witness ==
  /\ pc = "parsed"
  /\ lexer.ok
  /\ Tokens = <<Literal(Num(2)), Operator("Sub"), Operator("Sub"), Literal(Num(2))>>
  /\ ast = Ok(BinOp("Sub", Immediate(Num(2)), Immediate(Num(-2))))

\* C10 as stated: a parameterless Function token followed by a Literal and
\* the end of the input parses to FunctionCall(f, Immediate(v)).
C10_BareLiteralArgumentParses ==
  (Parsed /\ Len(Tokens) = 2 /\ Tokens[1].type = "Function" /\ IsLiteral(Tokens[2]))
    => ast = Ok(FuncNode(Tokens[1].func, Immediate(Tokens[2].value)))

\* C10 amended: in a function's argument the parser rejects a bare literal
\* as it rejects a unary minus: a Function token followed by a Literal and
\* the end of the input ("abs 2") fails with "Unexpected token", and so does
\* a Function token followed by any token but '('.
C10_BareLiteralArgumentRejected ==
  Parsed =>
    /\ (Len(Tokens) = 2 /\ Tokens[1].type = "Function" /\ IsLiteral(Tokens[2]))
         => ast = UnexpectedToken
    /\ (Len(Tokens) >= 1 /\ Tokens[1].type = "Function"
          /\ (Len(Tokens) = 1 \/ Tokens[2] # LeftBracket))
         => ast = UnexpectedToken

C10_Witness ==
  /\ pc = "parsed"
  /\ text = TextAbsLiteral
  /\ Tokens = <<Function(Func0("Abs")), Literal(Num(2))>>
  /\ ast = UnexpectedToken

====
